---- MODULE Spec2Model ----
(***************************************************************************)
(* A model of raxio, an interactive term-rewriting interpreter.            *)
(*                                                                         *)
(* The rewrite engine of src/src/runtime.rs (ast_traverse_match,           *)
(* match_patterns, fill_pattern_mapping, construct_rhs) is modelled as     *)
(* operators over finite trees.  The session machine (Env::interpret,      *)
(* Env::pop_expr) and the REPL loop that drives it (start_repl in          *)
(* src/src/main.rs) are modelled as a state machine.                       *)
(***************************************************************************)
EXTENDS Integers, Sequences, FiniteSets, TLC

(***************************************************************************)
(* Bounds of the model.                                                    *)
(***************************************************************************)
\* Longest history explored (rule applications stop being issued there).
MaxHistory == 3
\* Most warnings accumulated by one batch of statements.
MaxWarnings == 1
\* Most undo commands entered in a row.
MaxUndos == 3

(***************************************************************************)
(* Expressions: parser::Expr as used by the runtime.                       *)
(***************************************************************************)
Variable(iden) == [kind |-> "Variable", iden |-> iden]

Functor(iden, args) == [kind |-> "Functor", iden |-> iden, args |-> args]

Min(a, b) == IF a < b THEN a ELSE b

(***************************************************************************)
(* HashMap<Expr, Expr>: a function whose domain is the set of keys.        *)
(***************************************************************************)
EmptyTable == << >>

\* Variant of TableInsert with a slip: a key already in the table keeps
\* its value.
TableInsert_keep(table, key, value) ==
    [k \in (DOMAIN table) \cup {key} |->
        IF k \in DOMAIN table THEN table[k] ELSE value]

TableInsert(table, key, value) ==
    [k \in (DOMAIN table) \cup {key} |-> IF k = key THEN value ELSE table[k]]

(***************************************************************************)
(* fill_pattern_mapping: walks the zipped argument lists in order, fills   *)
(* the table and reports whether the right hand side can be constructed.   *)
(* The result carries the table because the code mutates it in place.      *)
(***************************************************************************)
RECURSIVE fill_from(_, _, _, _)
fill_from(cur_args, lhs_args, args_table, i) ==
    IF i > Min(Len(lhs_args), Len(cur_args))
    THEN [ok |-> TRUE, table |-> args_table]
    ELSE LET lhs_arg == lhs_args[i]
             cur_arg == cur_args[i]
         IN  IF lhs_arg.kind = "Variable"
             THEN fill_from(cur_args, lhs_args,
                            TableInsert(args_table, lhs_arg, cur_arg), i + 1)
             ELSE IF cur_arg.kind = "Variable"
             THEN [ok |-> FALSE, table |-> args_table]
             ELSE IF cur_arg.iden = lhs_arg.iden
                     /\ Len(cur_arg.args) = Len(lhs_arg.args)
             THEN LET sub == fill_from(cur_arg.args, lhs_arg.args, args_table, 1)
                  IN  IF sub.ok
                      THEN fill_from(cur_args, lhs_args, sub.table, i + 1)
                      ELSE [ok |-> FALSE, table |-> sub.table]
             ELSE [ok |-> FALSE, table |-> args_table]

\* Variant of fill_pattern_mapping with a slip: a Variable that stands for
\* two different arguments makes the match fail.
fill_pattern_mapping_linear(cur_args, lhs_args, args_table) ==
    LET filled == fill_from(cur_args, lhs_args, args_table, 1)
        n == Min(Len(lhs_args), Len(cur_args))
    IN  IF \E i, j \in 1..n : /\ lhs_args[i].kind = "Variable"
                              /\ lhs_args[i] = lhs_args[j]
                              /\ cur_args[i] # cur_args[j]
        THEN [ok |-> FALSE, table |-> filled.table]
        ELSE filled

fill_pattern_mapping(cur_args, lhs_args, args_table) ==
    fill_from(cur_args, lhs_args, args_table, 1)

(***************************************************************************)
(* construct_rhs: the right hand side with the table's symbols mapped.     *)
(***************************************************************************)
\* Variant of construct_rhs with a slip: the arguments of the right hand
\* side are mapped, what is inside them is not.
construct_rhs_shallow(right, args_table) ==
    IF right.kind = "Variable"
    THEN IF right \in DOMAIN args_table
         THEN args_table[right]
         ELSE Variable(right.iden)
    ELSE Functor(right.iden,
                 [i \in 1..Len(right.args) |->
                     IF right.args[i] \in DOMAIN args_table
                     THEN args_table[right.args[i]]
                     ELSE right.args[i]])

RECURSIVE construct_rhs(_, _)
construct_rhs(right, args_table) ==
    IF right.kind = "Variable"
    THEN IF right \in DOMAIN args_table
         THEN args_table[right]
         ELSE Variable(right.iden)
    ELSE Functor(right.iden,
                 [i \in 1..Len(right.args) |->
                     construct_rhs(right.args[i], args_table)])

\* Variant of match_patterns with a slip: a Variable pattern binds to each
\* Variable argument, which is replaced by the right hand side built with
\* that binding.
match_patterns_binds_argument(current_expr, left, right) ==
    IF current_expr.kind = "Variable" /\ left.kind = "Variable"
    THEN IF current_expr.iden = left.iden
         THEN right
         ELSE Variable(current_expr.iden)
    ELSE IF current_expr.kind = "Functor" /\ left.kind = "Functor"
    THEN IF current_expr.iden = left.iden
            /\ Len(current_expr.args) = Len(left.args)
         THEN LET filled == fill_pattern_mapping(current_expr.args, left.args,
                                                 EmptyTable)
              IN  IF filled.ok
                  THEN construct_rhs(right, filled.table)
                  ELSE Functor(current_expr.iden, current_expr.args)
         ELSE Functor(current_expr.iden, current_expr.args)
    ELSE IF current_expr.kind = "Variable"
    THEN current_expr
    ELSE Functor(current_expr.iden,
                 [i \in 1..Len(current_expr.args) |->
                     LET arg == current_expr.args[i]
                     IN  IF arg.kind = "Variable"
                         THEN construct_rhs(right,
                                  TableInsert(EmptyTable, left, arg))
                         ELSE arg])

\* Variant of match_patterns with a slip: the arities of the two functors
\* are not compared.
match_patterns_no_arity(current_expr, left, right) ==
    IF current_expr.kind = "Variable" /\ left.kind = "Variable"
    THEN IF current_expr.iden = left.iden
         THEN right
         ELSE Variable(current_expr.iden)
    ELSE IF current_expr.kind = "Functor" /\ left.kind = "Functor"
    THEN IF current_expr.iden = left.iden
         THEN LET filled == fill_pattern_mapping(current_expr.args, left.args,
                                                 EmptyTable)
              IN  IF filled.ok
                  THEN construct_rhs(right, filled.table)
                  ELSE Functor(current_expr.iden, current_expr.args)
         ELSE Functor(current_expr.iden, current_expr.args)
    ELSE IF current_expr.kind = "Variable"
    THEN current_expr
    ELSE Functor(current_expr.iden,
                 [i \in 1..Len(current_expr.args) |->
                     LET arg == current_expr.args[i]
                     IN  IF arg.kind = "Variable"
                         THEN IF arg.iden = left.iden
                              THEN right
                              ELSE Variable(arg.iden)
                         ELSE arg])

\* Variant of match_patterns with a slip: against a Variable pattern every
\* Variable argument is replaced, whatever its name.
match_patterns_any_name(current_expr, left, right) ==
    IF current_expr.kind = "Variable" /\ left.kind = "Variable"
    THEN IF current_expr.iden = left.iden
         THEN right
         ELSE Variable(current_expr.iden)
    ELSE IF current_expr.kind = "Functor" /\ left.kind = "Functor"
    THEN IF current_expr.iden = left.iden
            /\ Len(current_expr.args) = Len(left.args)
         THEN LET filled == fill_pattern_mapping(current_expr.args, left.args,
                                                 EmptyTable)
              IN  IF filled.ok
                  THEN construct_rhs(right, filled.table)
                  ELSE Functor(current_expr.iden, current_expr.args)
         ELSE Functor(current_expr.iden, current_expr.args)
    ELSE IF current_expr.kind = "Variable"
    THEN current_expr
    ELSE Functor(current_expr.iden,
                 [i \in 1..Len(current_expr.args) |->
                     LET arg == current_expr.args[i]
                     IN  IF arg.kind = "Variable" THEN right ELSE arg])

(***************************************************************************)
(* match_patterns: one match of current_expr against left at its root.     *)
(***************************************************************************)
match_patterns(current_expr, left, right) ==
    IF current_expr.kind = "Variable" /\ left.kind = "Variable"
    THEN IF current_expr.iden = left.iden
         THEN right
         ELSE Variable(current_expr.iden)
    ELSE IF current_expr.kind = "Functor" /\ left.kind = "Functor"
    THEN IF current_expr.iden = left.iden
            /\ Len(current_expr.args) = Len(left.args)
         THEN LET filled == fill_pattern_mapping(current_expr.args, left.args,
                                                 EmptyTable)
              IN  IF filled.ok
                  THEN construct_rhs(right, filled.table)
                  ELSE Functor(current_expr.iden, current_expr.args)
         ELSE Functor(current_expr.iden, current_expr.args)
    ELSE IF current_expr.kind = "Variable"
    THEN current_expr
    ELSE Functor(current_expr.iden,
                 [i \in 1..Len(current_expr.args) |->
                     LET arg == current_expr.args[i]
                     IN  IF arg.kind = "Variable"
                         THEN IF arg.iden = left.iden
                              THEN right
                              ELSE Variable(arg.iden)
                         ELSE arg])

(***************************************************************************)
(* ast_traverse_match: match the sub-expressions at exactly `depth`.       *)
(***************************************************************************)
\* Variant of ast_traverse_match with a slip: a Variable met before the
\* depth is used up is matched.
RECURSIVE ast_traverse_match_leaf(_, _, _, _)
ast_traverse_match_leaf(current_expr, left, right, depth) ==
    IF depth = 0 \/ current_expr.kind = "Variable"
    THEN match_patterns(current_expr, left, right)
    ELSE Functor(current_expr.iden,
                 [i \in 1..Len(current_expr.args) |->
                     ast_traverse_match_leaf(current_expr.args[i], left,
                                             right, depth - 1)])

\* Variant of ast_traverse_match with a slip: what the match returns is
\* matched again.
RECURSIVE ast_traverse_match_rescan(_, _, _, _)
ast_traverse_match_rescan(current_expr, left, right, depth) ==
    IF depth = 0
    THEN match_patterns(match_patterns(current_expr, left, right), left, right)
    ELSE IF current_expr.kind = "Variable"
    THEN current_expr
    ELSE Functor(current_expr.iden,
                 [i \in 1..Len(current_expr.args) |->
                     ast_traverse_match_rescan(current_expr.args[i], left,
                                               right, depth - 1)])

RECURSIVE ast_traverse_match(_, _, _, _)
ast_traverse_match(current_expr, left, right, depth) ==
    IF depth = 0
    THEN match_patterns(current_expr, left, right)
    ELSE IF current_expr.kind = "Variable"
    THEN current_expr
    ELSE Functor(current_expr.iden,
                 [i \in 1..Len(current_expr.args) |->
                     ast_traverse_match(current_expr.args[i], left, right,
                                        depth - 1)])

(***************************************************************************)
(* Inputs: the expressions, rules, rule names and paths the statements of  *)
(* the model are built from.                                               *)
(***************************************************************************)
fA == Functor("f", <<Variable("A")>>)

ffA == Functor("f", <<fA>>)

gAA == Functor("g", <<Variable("A"), Variable("A")>>)

hA == Functor("h", <<Variable("A")>>)

fx == Functor("f", <<Variable("x")>>)

gxx == Functor("g", <<Variable("x"), Variable("x")>>)

gab == Functor("g", <<Variable("a"), Variable("b")>>)

ha == Functor("h", <<Variable("a")>>)

ExprInputs == {fA, ffA}

RuleInputs == {<<fx, gxx>>, <<gab, ha>>}

RuleNames == {"double", "tag"}

Depths == {0, 1}

None == "None"

PathInputs == {None, "out"}

(***************************************************************************)
(* Statements (parser::Stmt as the runtime matches on it) and the REPL's   *)
(* undo command.                                                           *)
(***************************************************************************)
ExprStmt(expr) == [kind |-> "ExprStmt", expr |-> expr]

ApplyStmt(iden, depth) == [kind |-> "ApplyStmt", iden |-> iden, depth |-> depth]

DefineStmt(iden, left, right) ==
    [kind |-> "DefineStmt", iden |-> iden, left |-> left, right |-> right]

RuleStmt(left, right, depth) ==
    [kind |-> "RuleStmt", left |-> left, right |-> right, depth |-> depth]

EndStmt(path) == [kind |-> "EndStmt", path |-> path]

\* The REPL's "undo" input line (a command, not a statement).
UndoCmd == [kind |-> "undo"]

NoStmt == [kind |-> "none"]

(***************************************************************************)
(* Warnings (error::Warning).                                              *)
(***************************************************************************)
ExprHasNoEffect == <<"ExprHasNoEffect">>

ApplyRuleNoEffect == <<"ApplyRuleNoEffect">>

InLineRuleNoEffect == <<"InLineRuleNoEffect">>

EndStmtHasNoEffect == <<"EndStmtHasNoEffect">>

RuleDoesNotExist(iden) == <<"RuleDoesNotExist", iden>>

(***************************************************************************)
(* State.                                                                  *)
(*   history, derivation_history, is_matching, rules, warnings: Env.       *)
(*   pc, res: where the REPL loop stands and what interpret returned.      *)
(*   stmt: the statement interpreted last.                                 *)
(*   prev: history and derivation_history as they were before it.          *)
(*   undos: the undo commands entered since it.                            *)
(*   defined: for each rule name, the pair of the last Define executed.    *)
(*   s5: how far the command sequence of scenario S5 has been followed.    *)
(*   written: what the last statement passed to fs::write, as a sequence   *)
(*       of file contents (empty when it wrote nothing).                   *)
(*   input: where the input read last came from (a REPL line or a script   *)
(*       file) and how lexing and parsing it ended.                        *)
(*   lexer: the Lexer at work on an input string, and how far it has read. *)
(***************************************************************************)
VARIABLES history, derivation_history, is_matching, rules, warnings,
          pc, res, stmt, prev, undos, defined, s5, written, input, lexer

vars == <<history, derivation_history, is_matching, rules, warnings,
          pc, res, stmt, prev, undos, defined, s5, written, input, lexer>>

env == <<history, derivation_history, is_matching, rules, warnings>>

NoRule == << >>

\* How an input ended: lexer.errors.len() > 0, and the Result of
\* parser.parse.
Parsed(source, lexer_errors, parse_res) ==
    [source |-> source, lexer_errors |-> lexer_errors, res |-> parse_res]

\* No input string is being lexed.
NoLexer == [input_string |-> << >>, input_bytes |-> 0,
            tokens |-> << >>, errors |-> << >>]

(***************************************************************************)
(* The parts of Env::interpret and Env::pop_expr that compute new values.  *)
(***************************************************************************)
\* Env::get_expr().unwrap(): the last element of a non-empty history.
get_expr(h) == h[Len(h)]

\* Vec::pop: removes the last element, if any.
Pop(v) == IF Len(v) = 0 THEN v ELSE SubSeq(v, 1, Len(v) - 1)

\* Variants of pop_expr with a slip: the derivation is not popped; the
\* anchor is popped too; the floor is one entry too high.
pop_expr_history_only(h, d) ==
    IF Len(h) > 1
    THEN [history |-> Pop(h), derivation_history |-> d]
    ELSE [history |-> h, derivation_history |-> d]

pop_expr_no_floor(h, d) ==
    IF Len(h) > 0
    THEN [history |-> Pop(h), derivation_history |-> Pop(d)]
    ELSE [history |-> h, derivation_history |-> d]

pop_expr_floor_two(h, d) ==
    IF Len(h) > 2
    THEN [history |-> Pop(h), derivation_history |-> Pop(d)]
    ELSE [history |-> h, derivation_history |-> d]

pop_expr(h, d) ==
    IF Len(h) > 1
    THEN [history |-> Pop(h), derivation_history |-> Pop(d)]
    ELSE [history |-> h, derivation_history |-> d]

\* Variant of expr_arm with a slip: the anchor is pushed twice.
expr_arm_twice(h, expr) == Append(Append(h, expr), expr)

\* (Stmt::ExprStmt(expr), false)
expr_arm(h, expr) == Append(h, expr)

\* Variant of rule_arm with a slip: the current term is rewritten where it
\* stands before the result is pushed.
rule_arm_in_place(h, d, left, right, depth) ==
    LET new == ast_traverse_match(get_expr(h), left, right, depth)
    IN  [history |-> Append(Append(Pop(h), new), new),
         derivation_history |-> Append(d, <<left, right, depth>>)]

\* Variant of rule_arm with a slip: the result replaces the current term.
rule_arm_replace(h, d, left, right, depth) ==
    [history |-> Append(Pop(h), ast_traverse_match(get_expr(h), left, right, depth)),
     derivation_history |-> Append(d, <<left, right, depth>>)]

\* (Stmt::RuleStmt { left, right, depth }, true)
rule_arm(h, d, left, right, depth) ==
    [history |-> Append(h, ast_traverse_match(get_expr(h), left, right, depth)),
     derivation_history |-> Append(d, <<left, right, depth>>)]

\* Variant of apply_arm with a slip: the rule is matched at the root
\* whatever the depth asked for.
apply_arm_root(h, d, table, iden, depth) ==
    LET left == table[iden][1]
        right == table[iden][2]
    IN  [history |-> Append(h, ast_traverse_match(get_expr(h), left, right, 0)),
         derivation_history |-> Append(d, <<left, right, depth>>)]

\* (Stmt::ApplyStmt { iden, depth }, true), the rule being in the table
apply_arm(h, d, table, iden, depth) ==
    LET left == table[iden][1]
        right == table[iden][2]
    IN  [history |-> Append(h, ast_traverse_match(get_expr(h), left, right, depth)),
         derivation_history |-> Append(d, <<left, right, depth>>)]

\* Variant of rules_insert with a slip: the table is built anew from the
\* definition, so the other names are lost.
rules_insert_alone(table, iden, left, right) ==
    [n \in {iden} |-> <<left, right>>]

\* Variant of rules_insert with a slip: an existing entry is kept.
rules_insert_if_absent(table, iden, left, right) ==
    [n \in (DOMAIN table) \cup {iden} |->
        IF n \in DOMAIN table THEN table[n] ELSE <<left, right>>]

\* HashMap::insert on the rule table
rules_insert(table, iden, left, right) ==
    [n \in (DOMAIN table) \cup {iden} |->
        IF n = iden THEN <<left, right>> ELSE table[n]]

(***************************************************************************)
(* Printing of terms (Expr::to_string) and the transcript of a session     *)
(* (Env::write_to_file).                                                   *)
(***************************************************************************)
NoOperator == "None"

get_binary_operator_str(iden) ==
    CASE iden = "add" -> "+"
      [] iden = "sub" -> "-"
      [] iden = "mul" -> "*"
      [] iden = "div" -> "/"
      [] OTHER -> NoOperator

RECURSIVE to_string(_)
RECURSIVE args_to_string(_, _)

\* for (i, arg) in args.iter().enumerate(): the argument, then ", " unless
\* it is the last one.
args_to_string(args, i) ==
    IF i > Len(args) THEN ""
    ELSE to_string(args[i]) \o (IF i < Len(args) THEN ", " ELSE "")
                            \o args_to_string(args, i + 1)

to_string(e) ==
    IF e.kind = "Variable" THEN e.iden
    ELSE IF get_binary_operator_str(e.iden) # NoOperator /\ Len(e.args) = 2
         THEN to_string(e.args[1]) \o " " \o get_binary_operator_str(e.iden)
                                   \o " " \o to_string(e.args[2])
         ELSE (IF e.iden = "group" THEN "(" ELSE e.iden \o "(")
              \o args_to_string(e.args, 1) \o ")"

\* Variant of step_entries with a slip: the anchor is not skipped.
RECURSIVE step_entries_no_skip(_, _, _)
step_entries_no_skip(h, d, i) ==
    IF i >= Min(Len(h), Len(d)) THEN ""
    ELSE "\n" \o ToString(i + 1) \o ". Applying rule: "
              \o to_string(d[i + 1][1]) \o " => " \o to_string(d[i + 1][2])
              \o " at depth " \o ToString(d[i + 1][3])
              \o ", results in:\n    " \o to_string(h[i + 1]) \o "\n"
              \o step_entries_no_skip(h, d, i + 1)

\* The map over history.iter().skip(1).enumerate()
\* .zip(derivation_history.iter()), collected: i counts from 0, expr is
\* the element of history after the anchor and the i elements passed, and
\* the zip ends with the shorter of the two.
RECURSIVE step_entries(_, _, _)
step_entries(h, d, i) ==
    IF i >= Min(Len(h) - 1, Len(d)) THEN ""
    ELSE "\n" \o ToString(i + 1) \o ". Applying rule: "
              \o to_string(d[i + 1][1]) \o " => " \o to_string(d[i + 1][2])
              \o " at depth " \o ToString(d[i + 1][3])
              \o ", results in:\n    " \o to_string(h[i + 2]) \o "\n"
              \o step_entries(h, d, i + 1)

\* The data that write_to_file passes to fs::write.
write_to_file(h, d) ==
    "Start pattern matching on " \o to_string(h[1]) \o "\n"
        \o step_entries(h, d, 0)
        \o "\nResult: " \o to_string(get_expr(h))

\* if let Some(file_path) = path { self.write_to_file(file_path)?; }
end_files(path, h, d) ==
    IF path = None THEN << >> ELSE <<write_to_file(h, d)>>

(***************************************************************************)
(* Scenario S5 as a command sequence: Expr f(A) in Global, Rule            *)
(* f(x) => g(x, x) at 0, Rule g(a, b) => h(a) at 0, undo, undo.  The value *)
(* is the number of its commands the run has just executed, in order.      *)
(***************************************************************************)
S5Step(s, cmd, matching) ==
    IF cmd = ExprStmt(fA) /\ ~matching THEN 1
    ELSE IF s = 1 /\ cmd = RuleStmt(fx, gxx, 0) THEN 2
    ELSE IF s = 2 /\ cmd = RuleStmt(gab, ha, 0) THEN 3
    ELSE IF s = 3 /\ cmd = UndoCmd THEN 4
    ELSE IF s = 4 /\ cmd = UndoCmd THEN 5
    ELSE 0

\* Bookkeeping done with every statement: `for stmt in stmts`; files is
\* what the statement writes.
ObserveWrite(s, files) ==
    /\ stmt' = s
    /\ prev' = [history |-> history,
                derivation_history |-> derivation_history]
    /\ undos' = 0
    /\ s5' = S5Step(s5, s, is_matching)
    /\ written' = files
    /\ UNCHANGED <<input, lexer>>

\* A statement that writes no file.
Observe(s) == ObserveWrite(s, << >>)

(***************************************************************************)
(* Init: Env::new() and the REPL at its first prompt.                      *)
(***************************************************************************)
Init ==
    /\ history = << >>
    /\ derivation_history = << >>
    /\ is_matching = FALSE
    /\ rules = << >>
    /\ warnings = << >>
    /\ pc = "prompt"
    /\ res = "none"
    /\ stmt = NoStmt
    /\ prev = [history |-> << >>, derivation_history |-> << >>]
    /\ undos = 0
    /\ defined = [n \in RuleNames |-> NoRule]
    /\ s5 = 0
    /\ written = << >>
    /\ input = Parsed("line", FALSE, "Ok")
    /\ lexer = NoLexer

(***************************************************************************)
(* The REPL loop (start_repl).                                             *)
(***************************************************************************)
\* "undo" => { env.pop_expr(); continue; }
Undo ==
    /\ pc = "prompt"
    /\ undos < MaxUndos
    /\ LET p == pop_expr(history, derivation_history)
       IN  /\ history' = p.history
           /\ derivation_history' = p.derivation_history
    /\ undos' = undos + 1
    /\ s5' = S5Step(s5, UndoCmd, is_matching)
    /\ UNCHANGED <<is_matching, rules, warnings, pc, res, stmt, prev, defined,
                   written, input, lexer>>

\* A line that lexes and parses without an error: env.interpret(parser.stmts)
\* is entered.
ReadLine ==
    /\ pc = "prompt"
    /\ pc' = "interpret"
    /\ input' = Parsed("line", FALSE, "Ok")
    /\ UNCHANGED <<env, res, stmt, prev, undos, defined, s5, written, lexer>>

\* The for loop of interpret has run out of statements: Ok(()).
Return ==
    /\ pc = "interpret"
    /\ pc' = "returned"
    /\ res' = "Ok"
    /\ UNCHANGED <<env, stmt, prev, undos, defined, s5, written, input, lexer>>

\* Back in start_repl: the warnings are printed and cleared, then the
\* error (if any) is printed and the loop goes round.
Drain ==
    /\ pc = "returned"
    /\ input.source = "line"
    /\ warnings' = << >>
    /\ pc' = "prompt"
    /\ res' = "none"
    /\ UNCHANGED <<history, derivation_history, is_matching, rules,
                   stmt, prev, undos, defined, s5, written, input, lexer>>

(***************************************************************************)
(* Env::interpret: one arm of the match per action, one statement a step.  *)
(***************************************************************************)
\* self.warnings.push(w)
Warn(w) ==
    /\ Len(warnings) < MaxWarnings
    /\ warnings' = Append(warnings, w)

\* Variant of ExprNoEffect with a slip: the expression becomes the anchor
\* of the session.
ExprNoEffect_new_anchor(expr) ==
    /\ pc = "interpret"
    /\ is_matching
    /\ Warn(ExprHasNoEffect)
    /\ history' = <<expr>>
    /\ derivation_history' = << >>
    /\ Observe(ExprStmt(expr))
    /\ UNCHANGED <<is_matching, rules, pc, res, defined>>

\* (Stmt::ExprStmt(_), true)
ExprNoEffect(expr) ==
    /\ pc = "interpret"
    /\ is_matching
    /\ Warn(ExprHasNoEffect)
    /\ Observe(ExprStmt(expr))
    /\ UNCHANGED <<history, derivation_history, is_matching, rules, pc, res, defined>>

\* Variant of ApplyNoEffect with a slip: the warning ends the batch with an
\* error.
ApplyNoEffect_fatal(iden, depth) ==
    /\ pc = "interpret"
    /\ ~is_matching
    /\ Warn(ApplyRuleNoEffect)
    /\ pc' = "returned"
    /\ res' = "Err"
    /\ Observe(ApplyStmt(iden, depth))
    /\ UNCHANGED <<history, derivation_history, is_matching, rules, defined>>

\* (Stmt::ApplyStmt { .. }, false)
ApplyNoEffect(iden, depth) ==
    /\ pc = "interpret"
    /\ ~is_matching
    /\ Warn(ApplyRuleNoEffect)
    /\ Observe(ApplyStmt(iden, depth))
    /\ UNCHANGED <<history, derivation_history, is_matching, rules, pc, res, defined>>

\* (Stmt::RuleStmt { .. }, false)
RuleNoEffect(left, right, depth) ==
    /\ pc = "interpret"
    /\ ~is_matching
    /\ Warn(InLineRuleNoEffect)
    /\ Observe(RuleStmt(left, right, depth))
    /\ UNCHANGED <<history, derivation_history, is_matching, rules, pc, res, defined>>

\* (Stmt::EndStmt(_), false)
EndNoEffect(path) ==
    /\ pc = "interpret"
    /\ ~is_matching
    /\ Warn(EndStmtHasNoEffect)
    /\ Observe(EndStmt(path))
    /\ UNCHANGED <<history, derivation_history, is_matching, rules, pc, res, defined>>

\* (Stmt::ExprStmt(expr), false)
ExprStart(expr) ==
    /\ pc = "interpret"
    /\ ~is_matching
    /\ is_matching' = TRUE
    /\ history' = expr_arm(history, expr)
    /\ Observe(ExprStmt(expr))
    /\ UNCHANGED <<derivation_history, rules, warnings, pc, res, defined>>

\* (Stmt::ApplyStmt { iden, depth }, true) with the rule in the table
ApplyRule(iden, depth) ==
    /\ pc = "interpret"
    /\ is_matching
    /\ iden \in DOMAIN rules
    /\ Len(history) < MaxHistory
    /\ LET a == apply_arm(history, derivation_history, rules, iden, depth)
       IN  /\ history' = a.history
           /\ derivation_history' = a.derivation_history
    /\ Observe(ApplyStmt(iden, depth))
    /\ UNCHANGED <<is_matching, rules, warnings, pc, res, defined>>

\* Variant of ApplyMissing with a slip: the current term is pushed again.
ApplyMissing_pushes(iden, depth) ==
    /\ pc = "interpret"
    /\ is_matching
    /\ iden \notin DOMAIN rules
    /\ Len(history) < MaxHistory
    /\ Warn(RuleDoesNotExist(iden))
    /\ history' = Append(history, get_expr(history))
    /\ Observe(ApplyStmt(iden, depth))
    /\ UNCHANGED <<derivation_history, is_matching, rules, pc, res, defined>>

\* (Stmt::ApplyStmt { iden, depth }, true) with no such rule
ApplyMissing(iden, depth) ==
    /\ pc = "interpret"
    /\ is_matching
    /\ iden \notin DOMAIN rules
    /\ Warn(RuleDoesNotExist(iden))
    /\ Observe(ApplyStmt(iden, depth))
    /\ UNCHANGED <<history, derivation_history, is_matching, rules, pc, res, defined>>

\* (Stmt::DefineStmt { iden, left, right }, _)
Define(iden, left, right) ==
    /\ pc = "interpret"
    /\ rules' = rules_insert(rules, iden, left, right)
    /\ defined' = [defined EXCEPT ![iden] = <<left, right>>]
    /\ Observe(DefineStmt(iden, left, right))
    /\ UNCHANGED <<history, derivation_history, is_matching, warnings, pc, res>>

\* (Stmt::RuleStmt { left, right, depth }, true)
Rule(left, right, depth) ==
    /\ pc = "interpret"
    /\ is_matching
    /\ Len(history) < MaxHistory
    /\ LET r == rule_arm(history, derivation_history, left, right, depth)
       IN  /\ history' = r.history
           /\ derivation_history' = r.derivation_history
    /\ Observe(RuleStmt(left, right, depth))
    /\ UNCHANGED <<is_matching, rules, warnings, pc, res, defined>>

\* Variant of End with a slip: the mode stays Matching.
End_keeps_mode(path) ==
    /\ pc = "interpret"
    /\ is_matching
    /\ history' = << >>
    /\ derivation_history' = << >>
    /\ ObserveWrite(EndStmt(path), end_files(path, history, derivation_history))
    /\ UNCHANGED <<is_matching, rules, warnings, pc, res, defined>>

\* Variant of End with a slip: the derivation is not cleared.
End_keeps_derivation(path) ==
    /\ pc = "interpret"
    /\ is_matching
    /\ history' = << >>
    /\ is_matching' = FALSE
    /\ ObserveWrite(EndStmt(path), end_files(path, history, derivation_history))
    /\ UNCHANGED <<derivation_history, rules, warnings, pc, res, defined>>

\* (Stmt::EndStmt(path), true): no path, or a path whose write succeeds
End(path) ==
    /\ pc = "interpret"
    /\ is_matching
    /\ history' = << >>
    /\ derivation_history' = << >>
    /\ is_matching' = FALSE
    /\ ObserveWrite(EndStmt(path), end_files(path, history, derivation_history))
    /\ UNCHANGED <<rules, warnings, pc, res, defined>>

\* (Stmt::EndStmt(Some(file_path)), true) when fs::write fails: the `?`
\* returns the error from interpret before anything is cleared, and no
\* transcript has been written.
EndWriteFails(path) ==
    /\ pc = "interpret"
    /\ is_matching
    /\ path # None
    /\ pc' = "returned"
    /\ res' = "Err"
    /\ Observe(EndStmt(path))
    /\ UNCHANGED <<history, derivation_history, is_matching, rules, warnings, defined>>

Interpret ==
    \/ \E expr \in ExprInputs : ExprNoEffect(expr) \/ ExprStart(expr)
    \/ \E iden \in RuleNames, depth \in Depths :
          \/ ApplyNoEffect(iden, depth)
          \/ ApplyRule(iden, depth)
          \/ ApplyMissing(iden, depth)
    \/ \E lr \in RuleInputs, depth \in Depths :
          RuleNoEffect(lr[1], lr[2], depth) \/ Rule(lr[1], lr[2], depth)
    \/ \E iden \in RuleNames, lr \in RuleInputs : Define(iden, lr[1], lr[2])
    \/ \E path \in PathInputs :
          EndNoEffect(path) \/ End(path) \/ EndWriteFails(path)

Next == Undo \/ ReadLine \/ Interpret \/ Return \/ Drain

Spec == Init /\ [][Next]_vars

(***************************************************************************)
(* The rewrite engine on its own: one session in which every in-line rule  *)
(* and every application of the rule "tag" draws its subject, pattern,     *)
(* template and depth from the sets below, so that history and             *)
(* derivation_history record what ast_traverse_match returned for them.    *)
(***************************************************************************)
varA == Variable("A")

varx == Variable("x")

c0 == Functor("c", << >>)

hAB == Functor("h", <<Variable("A"), Variable("B")>>)

hxfx == Functor("h", <<Variable("x"), fx>>)

gfAB == Functor("g", <<fA, Variable("B")>>)

tx == Functor("t", <<Variable("x")>>)

gba == Functor("g", <<Variable("b"), Variable("a")>>)

gfab == Functor("g", <<Functor("f", <<Variable("a")>>), Variable("b")>>)

hba == Functor("h", <<Variable("b"), Variable("a")>>)

MatchTerms == {varA, varx, c0, fA, ffA, gAA, hAB, hxfx, gfAB, gba}

MatchRules == {<<fx, gxx>>, <<gab, gba>>, <<gfab, hba>>, <<gxx, fx>>,
               <<varx, tx>>, <<varA, c0>>, <<ha, gab>>, <<c0, varA>>,
               <<gab, gfab>>}

MatchDepths == {0, 1, 2}

TagRules == {<<varx, tx>>, <<fx, gxx>>}

\* Env::new(), with interpret entered.
InitMatch ==
    /\ history = << >>
    /\ derivation_history = << >>
    /\ is_matching = FALSE
    /\ rules = << >>
    /\ warnings = << >>
    /\ pc = "interpret"
    /\ res = "none"
    /\ stmt = NoStmt
    /\ prev = [history |-> << >>, derivation_history |-> << >>]
    /\ undos = 0
    /\ defined = [n \in RuleNames |-> NoRule]
    /\ s5 = 0
    /\ written = << >>
    /\ input = Parsed("line", FALSE, "Ok")
    /\ lexer = NoLexer

NextMatch ==
    \/ \E expr \in MatchTerms : ExprStart(expr)
    \/ \E lr \in MatchRules, depth \in MatchDepths : Rule(lr[1], lr[2], depth)
    \/ \E lr \in TagRules : Define("tag", lr[1], lr[2])
    \/ \E depth \in MatchDepths : ApplyRule("tag", depth)

SpecMatch == InitMatch /\ [][NextMatch]_vars

(***************************************************************************)
(* Inputs that fail to lex or to parse, in the REPL (start_repl) and in a  *)
(* script file (interpret_file).  The lexer and the parser are stood for   *)
(* by their outcome: whether lexer.errors is empty, what parser.parse      *)
(* returned, and the statements left in parser.stmts, which are those      *)
(* parsed before the first error.                                          *)
(***************************************************************************)
Failed(in) == in.lexer_errors \/ in.res = "Err"

InputOutcomes ==
    {Parsed(source, lexer_errors, parse_res) :
        source \in {"line", "file"}, lexer_errors \in BOOLEAN,
        parse_res \in {"Ok", "Err"}}

\* start_repl: the lexer's errors are printed, or else the parser's error,
\* and the loop goes round (`continue`) without calling env.interpret.
ReadLineFails ==
    /\ pc = "prompt"
    /\ \E in \in InputOutcomes :
          /\ in.source = "line"
          /\ Failed(in)
          /\ input' = in
    /\ UNCHANGED <<env, pc, res, stmt, prev, undos, defined, s5, written, lexer>>

\* interpret_file: Env::new(), the lexer's errors and the parser's error
\* are printed, and env.interpret(parser.stmts) is called whatever they
\* were.
InitFile ==
    /\ history = << >>
    /\ derivation_history = << >>
    /\ is_matching = FALSE
    /\ rules = << >>
    /\ warnings = << >>
    /\ pc = "interpret"
    /\ res = "none"
    /\ stmt = NoStmt
    /\ prev = [history |-> << >>, derivation_history |-> << >>]
    /\ undos = 0
    /\ defined = [n \in RuleNames |-> NoRule]
    /\ s5 = 0
    /\ written = << >>
    /\ input \in {in \in InputOutcomes : in.source = "file"}
    /\ lexer = NoLexer

\* interpret_file after env.interpret: the warnings are printed and
\* cleared, the error is printed, and the function returns.
DrainFile ==
    /\ pc = "returned"
    /\ input.source = "file"
    /\ warnings' = << >>
    /\ pc' = "done"
    /\ UNCHANGED <<history, derivation_history, is_matching, rules, res,
                   stmt, prev, undos, defined, s5, written, input, lexer>>

InitInput == Init \/ InitFile

NextInput == Next \/ ReadLineFails \/ DrainFile

SpecInput == InitInput /\ [][NextInput]_vars

(***************************************************************************)
(* The lexer (src/src/lexer.rs).  An input string is a sequence of         *)
(* characters, a character a string of length one; input_bytes is the      *)
(* number of characters the iterator of Lexer::lex has consumed.           *)
(***************************************************************************)
LowerCase ==
    {"a", "b", "c", "d", "e", "f", "g", "h", "i", "j", "k", "l", "m", "n",
      "o", "p", "q", "r", "s", "t", "u", "v", "w", "x", "y", "z"}

UpperCase ==
    {"A", "B", "C", "D", "E", "F", "G", "H", "I", "J", "K", "L", "M", "N",
      "O", "P", "Q", "R", "S", "T", "U", "V", "W", "X", "Y", "Z"}

DigitChars == <<"0", "1", "2", "3", "4", "5", "6", "7", "8", "9">>

Digits == {DigitChars[k] : k \in 1..Len(DigitChars)}

Whitespace == {" ", "\n", "\t", "\r"}

\* 'a'..='z' | 'A'..='Z' | '_' | '0'..='9'
IdentifierChars == LowerCase \cup UpperCase \cup {"_"} \cup Digits

\* What push_path takes between the quotes.
PathChars == IdentifierChars \cup Whitespace \cup {"/"}

\* Token::Comma, OpenParen, CloseParen, Add, Sub, Mul, Div, by character.
CharTokens ==
    [c \in {",", "(", ")", "+", "-", "*", "/"} |->
        CASE c = "," -> "Comma"
          [] c = "(" -> "OpenParen"
          [] c = ")" -> "CloseParen"
          [] c = "+" -> "Add"
          [] c = "-" -> "Sub"
          [] c = "*" -> "Mul"
          [] c = "/" -> "Div"]

\* enum Token: the variants without a payload by their name.
Token(kind) == <<kind>>

Identifier(lexeme) == <<"Identifier", lexeme>>

Number(n) == <<"Number", n>>

Path(lexeme) == <<"Path", lexeme>>

KEY_DEF == <<"d", "e", "f">>

KEY_END == <<"e", "n", "d">>

\* enum LexError, and the ParseIntError of push_number.
UnterminatedStringLiteral(pos) == <<"UnterminatedStringLiteral", pos>>

UnterminatedStringLiteralAtEnd == <<"UnterminatedStringLiteralAtEnd">>

ExpectCharAfter(pos, expected, after, got) ==
    <<"ExpectCharAfter", pos, expected, after, got>>

UnknownChar(pos, got) == <<"UnknownChar", pos, got>>

ParseIntError == <<"ParseIntError">>

\* The character at index k (from 0) of the string, None past its end.
CharAt(input_string, k) ==
    IF k < Len(input_string) THEN input_string[k + 1] ELSE None

\* input_bytes.peek()
Peek(l) == CharAt(l.input_string, l.input_bytes)

\* input_bytes.next(), n times: at the end of the string it does nothing.
Advance(l, n) ==
    [l EXCEPT !.input_bytes = Min(@ + n, Len(l.input_string))]

\* How many characters of the set follow each other from index k on:
\* `while let Some((_, c @ ..)) = input_bytes.peek()`.
RECURSIVE RunLength(_, _, _)
RunLength(input_string, k, set) ==
    IF CharAt(input_string, k) \in set
    THEN 1 + RunLength(input_string, k + 1, set)
    ELSE 0

\* The n characters from index k on, as a String: lexeme.push(*c).
RECURSIVE Lexeme(_, _, _)
Lexeme(input_string, k, n) ==
    IF n = 0 THEN ""
    ELSE input_string[k + 1] \o Lexeme(input_string, k + 1, n - 1)

push_token(l, token) ==
    Advance([l EXCEPT !.tokens = Append(@, token)], 1)

push_identifier(l) ==
    LET n == RunLength(l.input_string, l.input_bytes, IdentifierChars)
    IN  Advance([l EXCEPT !.tokens =
                    Append(@, Identifier(Lexeme(l.input_string,
                                                l.input_bytes, n)))], n)

\* push_keyword: the characters from current_idx on are zipped with the
\* keyword's; count is the number of pairs, all_equal is `res`.
push_keyword(l, token, keyword) ==
    LET current_idx == l.input_bytes
        count == Min(Len(l.input_string) - current_idx, Len(keyword))
        all_equal == /\ count > 0
                     /\ \A k \in 1..count :
                            l.input_string[current_idx + k] = keyword[k]
        next_char == CharAt(l.input_string, current_idx + count)
    IN  IF all_equal /\ count = Len(keyword)
        THEN IF next_char \in Whitespace \cup {None}
             THEN Advance([l EXCEPT !.tokens = Append(@, token)],
                          Len(keyword))
             ELSE push_identifier(l)
        ELSE push_identifier(l)

\* The 'a' arm of Lexer::lex: it looks at the character after the 'a' and
\* at nothing else.
lex_a(l) ==
    LET after == CharAt(l.input_string, l.input_bytes + 1)
    IN  CASE after = "s" -> Advance(push_token(l, Token("As")), 1)
          [] after = "t" -> Advance(push_token(l, Token("At")), 1)
          [] after = None -> Advance(l, 1)
          [] OTHER -> push_identifier(l)

\* usize::MAX in decimal.
UsizeMax ==
    <<"1", "8", "4", "4", "6", "7", "4", "4", "0", "7", "3", "7", "0", "9",
      "5", "5", "1", "6", "1", "5">>

DigitValue(c) == CHOOSE n \in 0..9 : DigitChars[n + 1] = c

\* The digits without their leading zeros (the last digit stays).
RECURSIVE StripZeros(_)
StripZeros(digits) ==
    IF Len(digits) > 1 /\ Head(digits) = "0"
    THEN StripZeros(Tail(digits))
    ELSE digits

\* a > b, for two digit sequences of the same length.
RECURSIVE DigitsGreater(_, _)
DigitsGreater(a, b) ==
    /\ a # << >>
    /\ \/ DigitValue(Head(a)) > DigitValue(Head(b))
       \/ Head(a) = Head(b) /\ DigitsGreater(Tail(a), Tail(b))

RECURSIVE DigitsNumber(_, _)
DigitsNumber(digits, acc) ==
    IF digits = << >> THEN acc
    ELSE DigitsNumber(Tail(digits), 10 * acc + DigitValue(Head(digits)))

\* collected_digits.parse::<usize>(): an error when the number does not
\* fit a usize.
parse_usize(collected_digits) ==
    LET d == StripZeros(collected_digits)
    IN  IF \/ Len(d) > Len(UsizeMax)
           \/ Len(d) = Len(UsizeMax) /\ DigitsGreater(d, UsizeMax)
        THEN [ok |-> FALSE, n |-> 0]
        ELSE [ok |-> TRUE, n |-> DigitsNumber(d, 0)]

push_number(l) ==
    LET n == RunLength(l.input_string, l.input_bytes, Digits)
        parsed == parse_usize(SubSeq(l.input_string, l.input_bytes + 1,
                                     l.input_bytes + n))
    IN  Advance(IF parsed.ok
                THEN [l EXCEPT !.tokens = Append(@, Number(parsed.n))]
                ELSE [l EXCEPT !.errors = Append(@, ParseIntError)], n)

\* push_path: the opening quote, then an optional '/', a run of characters
\* without '/', and again after each further '/': in all, the longest run
\* of PathChars; then the closing quote, or an error, and one more
\* character consumed in either case.
push_path(l) ==
    LET start == l.input_bytes + 1
        n == RunLength(l.input_string, start, PathChars)
        lexeme == Lexeme(l.input_string, start, n)
        stop == CharAt(l.input_string, start + n)
    IN  Advance(CASE stop = "\"" -> [l EXCEPT !.tokens = Append(@, Path(lexeme))]
                  [] stop = None ->
                       [l EXCEPT !.errors =
                           Append(@, UnterminatedStringLiteralAtEnd)]
                  [] OTHER ->
                       [l EXCEPT !.errors =
                           Append(@, UnterminatedStringLiteral(start + n))],
                n + 2)

\* The '=' arm of Lexer::lex.
lex_derive(l) ==
    LET got == CharAt(l.input_string, l.input_bytes + 1)
    IN  CASE got = ">" -> push_token(Advance(l, 1), Token("Derive"))
          [] got = None ->
               Advance([l EXCEPT !.errors =
                           Append(@, ExpectCharAfter(Len(l.input_string) - 1,
                                                     ">", "=", " "))], 2)
          [] OTHER ->
               Advance([l EXCEPT !.errors =
                           Append(@, ExpectCharAfter(l.input_bytes + 1,
                                                     ">", "=", got))], 2)

\* The input strings of the tests of lexer.rs, a path between its quotes
\* and a character that the lexer does not know.
lex_definition ==
    <<"d", "e", "f", " ", "p", "a", "i", "r", " ", "a", "s", " ", "f", "(",
      "x", ",", " ", "y", ")", " ", "=", ">", " ", "f", "(", "y", ",", " ",
      "x", ")">>

lex_keyword_combinations ==
    <<"d", "e", "f", "a", "s", " ", "e", "n", "d", "d", "e", "f", " ", "a",
      "s">>

trigger_equal_sign_and_numeric_error ==
    <<" ", "a", " ", "=", " ", "a", " ", "+", " ", "a">>

trigger_unterminated_string_literal_error ==
    <<"a", "b", "c", " ", "\"", "p", "a", "t", "h", " ">>

lex_infix_math_ops ==
    <<"(", "5", " ", "+", " ", "6", ")", " ", "*", " ", "3", "-", "1">>

end_with_path ==
    <<"e", "n", "d", " ", "\"", "/", "t", "m", "p", "/", "o", "u", "t",
      "\"">>

unknown_char ==
    <<"f", "(", "x", ")", " ", "?">>

TestInputs ==
    {lex_definition, lex_keyword_combinations,
     trigger_equal_sign_and_numeric_error,
     trigger_unterminated_string_literal_error, lex_infix_math_ops,
     end_with_path, unknown_char}

\* The characters of the input strings that are enumerated, and the
\* longest of those strings.
LexAlphabet == {"a", "s", "t", "d", "e", "f", "n", "x", " ", "("}

MaxInput == 4

LexInputs ==
    TestInputs \cup UNION {[1..n -> LexAlphabet] : n \in 0..MaxInput}

\* Lexer::new() and lexer.lex(&input_string) entered, in a fresh run.
InitLex ==
    /\ history = << >>
    /\ derivation_history = << >>
    /\ is_matching = FALSE
    /\ rules = << >>
    /\ warnings = << >>
    /\ pc = "lex"
    /\ res = "none"
    /\ stmt = NoStmt
    /\ prev = [history |-> << >>, derivation_history |-> << >>]
    /\ undos = 0
    /\ defined = [n \in RuleNames |-> NoRule]
    /\ s5 = 0
    /\ written = << >>
    /\ input = Parsed("line", FALSE, "Ok")
    /\ \E input_string \in LexInputs :
          lexer = [input_string |-> input_string, input_bytes |-> 0,
                   tokens |-> << >>, errors |-> << >>]

\* One turn of `while input_bytes.peek().is_some()`, by the arm of the
\* match that the character peeked selects.
LexArm(chars, after) ==
    /\ pc = "lex"
    /\ Peek(lexer) \in chars
    /\ lexer' = after
    /\ UNCHANGED <<env, pc, res, stmt, prev, undos, defined, s5, written, input>>

LexCharToken ==
    LexArm(DOMAIN CharTokens, push_token(lexer, Token(CharTokens[Peek(lexer)])))

LexPath == LexArm({"\""}, push_path(lexer))

LexDerive == LexArm({"="}, lex_derive(lexer))

LexWhitespace == LexArm(Whitespace, Advance(lexer, 1))

LexDefine == LexArm({"d"}, push_keyword(lexer, Token("Define"), KEY_DEF))

LexEnd == LexArm({"e"}, push_keyword(lexer, Token("End"), KEY_END))

LexAsAt == LexArm({"a"}, lex_a(lexer))

LexIdentifier ==
    LexArm((LowerCase \cup UpperCase \cup {"_"}) \ {"d", "e", "a"},
           push_identifier(lexer))

LexNumber == LexArm(Digits, push_number(lexer))

\* Any other character: LexError::UnknownChar, and the character is skipped.
LexUnknownChar ==
    /\ pc = "lex"
    /\ Peek(lexer) # None
    /\ Peek(lexer) \notin (DOMAIN CharTokens) \cup {"\"", "="} \cup Whitespace
                              \cup IdentifierChars
    /\ lexer' = Advance([lexer EXCEPT !.errors =
                            Append(@, UnknownChar(lexer.input_bytes,
                                                  Peek(lexer)))], 1)
    /\ UNCHANGED <<env, pc, res, stmt, prev, undos, defined, s5, written, input>>

NextLex ==
    \/ LexCharToken
    \/ LexPath
    \/ LexDerive
    \/ LexWhitespace
    \/ LexDefine
    \/ LexEnd
    \/ LexAsAt
    \/ LexIdentifier
    \/ LexNumber
    \/ LexUnknownChar

SpecLex == InitLex /\ [][NextLex]_vars

(***************************************************************************)
(* Steps of a behaviour, told apart by the position of the REPL loop.      *)
(***************************************************************************)
\* interpret executes one statement, which is stmt' (every step taken
\* inside interpret but its return of Ok(())).
StmtStep == pc = "interpret" /\ res' # "Ok"

\* The REPL executes one undo command.
UndoStep == pc = "prompt" /\ undos' = undos + 1

(***************************************************************************)
(* C1: after any sequence of statements and undo commands from a fresh     *)
(* Env, the derivation holds max(0, |history| - 1) entries.                *)
(***************************************************************************)
C1_DerivationLength ==
    Len(derivation_history) = (IF Len(history) >= 1 THEN Len(history) - 1 ELSE 0)

\* A rule applied on a history of two, then undone.
C1_Witness ==
    /\ undos = 1
    /\ stmt.kind \in {"RuleStmt", "ApplyStmt"}
    /\ Len(prev.history) = 2
    /\ Len(history) = 2
    /\ Len(derivation_history) = 1

(***************************************************************************)
(* C2: every derivation entry (L, R, d) at index i explains its step:      *)
(* history[i+1] = traverse(history[i], L, R, d), in every reachable state  *)
(* (so also after undo, after a Define that overwrites an applied rule     *)
(* and after an Apply of an undefined rule).                               *)
(***************************************************************************)
C2_DerivationExplainsHistory ==
    \A i \in 1..Len(derivation_history) :
        /\ i + 1 <= Len(history)
        /\ history[i + 1] =
              ast_traverse_match(history[i], derivation_history[i][1],
                                 derivation_history[i][2], derivation_history[i][3])

\* Two steps that both changed the term, the first one made at depth 1 by
\* a rule whose name has been given another pair since.
C2_Witness ==
    /\ stmt.kind = "DefineStmt"
    /\ Len(history) = 3
    /\ history[2] # history[1]
    /\ history[3] # history[2]
    /\ derivation_history[1][3] = 1
    /\ \A n \in DOMAIN rules :
          rules[n] # <<derivation_history[1][1], derivation_history[1][2]>>

(***************************************************************************)
(* C3 as stated: 'mode is Global', 'history is empty' and 'derivation is   *)
(* empty' are pairwise equivalent in every state.                          *)
(***************************************************************************)
C3_Original ==
    /\ (~is_matching) <=> (history = << >>)
    /\ (history = << >>) <=> (derivation_history = << >>)

(***************************************************************************)
(* C3 amended: mode is Global exactly when history is empty, and the       *)
(* derivation is empty exactly when history holds at most the anchor.      *)
(***************************************************************************)
C3_Amended ==
    /\ (~is_matching) <=> (history = << >>)
    /\ (derivation_history = << >>) <=> (Len(history) <= 1)

\* A session that holds its anchor only.
C3_Witness ==
    /\ is_matching
    /\ Len(history) = 1
    /\ derivation_history = << >>
    /\ stmt.kind = "ExprStmt"

(***************************************************************************)
(* C4 as stated: from a Matching state with |history| >= 2, one Rule or    *)
(* one Apply statement (whatever L, R, d and n) followed by undo gives     *)
(* back the history and derivation that held before the statement.         *)
(***************************************************************************)
C4_Original ==
    (/\ undos = 1
     /\ stmt.kind \in {"RuleStmt", "ApplyStmt"}
     /\ Len(prev.history) >= 2)
    => (/\ history = prev.history
        /\ derivation_history = prev.derivation_history)

(***************************************************************************)
(* C4 amended: the same, for a Rule statement and for an Apply statement   *)
(* whose name n is in the rule table.                                      *)
(***************************************************************************)
C4_Amended ==
    (/\ undos = 1
     /\ stmt.kind \in {"RuleStmt", "ApplyStmt"}
     /\ stmt.kind = "ApplyStmt" => stmt.iden \in DOMAIN rules
     /\ Len(prev.history) >= 2)
    => (/\ history = prev.history
        /\ derivation_history = prev.derivation_history)

\* An Apply of a defined rule on a history of two, undone.
C4_Witness ==
    /\ undos = 1
    /\ stmt.kind = "ApplyStmt"
    /\ stmt.iden \in DOMAIN rules
    /\ Len(prev.history) = 2
    /\ history = prev.history
    /\ derivation_history = prev.derivation_history

(***************************************************************************)
(* C5: undo removes exactly the top of history and of derivation when      *)
(* |history| > 1 and changes neither when |history| <= 1; it never removes *)
(* the anchor and never changes the mode or the rule table.                *)
(***************************************************************************)
C5_UndoEffect ==
    [][UndoStep =>
        /\ Len(history) > 1 =>
              /\ history' = SubSeq(history, 1, Len(history) - 1)
              /\ derivation_history' =
                    SubSeq(derivation_history, 1, Len(derivation_history) - 1)
        /\ Len(history) <= 1 =>
              /\ history' = history
              /\ derivation_history' = derivation_history
        /\ Len(history) >= 1 =>
              /\ Len(history') >= 1
              /\ history'[1] = history[1]
        /\ is_matching' = is_matching
        /\ rules' = rules]_vars

\* A rule applied to the anchor, undone, and a second undo at the floor.
C5_Witness ==
    /\ undos = 2
    /\ stmt.kind = "RuleStmt"
    /\ Len(prev.history) = 1
    /\ history = prev.history
    /\ is_matching

(***************************************************************************)
(* C6 as stated (scenario S5): Expr f(A) in Global, Rule f(x) => g(x, x)   *)
(* at 0 gives g(A, A), Rule g(a, b) => h(a) at 0 gives h(A), undo gives    *)
(* g(A, A), and a second undo leaves g(A, A) on top of a history of 2.     *)
(***************************************************************************)
C6_Original ==
    /\ s5 = 2 => get_expr(history) = gAA
    /\ s5 = 3 => get_expr(history) = hA
    /\ s5 = 4 => get_expr(history) = gAA
    /\ s5 = 5 => (get_expr(history) = gAA /\ Len(history) = 2)

(***************************************************************************)
(* C6 amended: the same up to the first undo, which leaves g(A, A) on top  *)
(* of a history of 2; the second undo pops again and leaves the anchor     *)
(* f(A) on top of a history of 1.                                          *)
(***************************************************************************)
C6_Amended ==
    /\ s5 = 1 => history = <<fA>>
    /\ s5 = 2 => get_expr(history) = gAA
    /\ s5 = 3 => get_expr(history) = hA
    /\ s5 = 4 => (get_expr(history) = gAA /\ Len(history) = 2)
    /\ s5 = 5 => (get_expr(history) = fA /\ Len(history) = 1)

\* The five commands of the scenario have been executed.
C6_Witness == s5 = 5 /\ undos = 2 /\ stmt = RuleStmt(gab, ha, 0)

(***************************************************************************)
(* C7: an out-of-state statement (Expr in Matching; Apply, Rule or End in  *)
(* Global) leaves mode, history, derivation and rule table unchanged and   *)
(* appends exactly one warning, of the kind that goes with the statement.  *)
(***************************************************************************)
OutOfState(s, matching) ==
    \/ s.kind = "ExprStmt" /\ matching
    \/ s.kind \in {"ApplyStmt", "RuleStmt", "EndStmt"} /\ ~matching

NoEffectWarning(s) ==
    CASE s.kind = "ExprStmt" -> ExprHasNoEffect
      [] s.kind = "ApplyStmt" -> ApplyRuleNoEffect
      [] s.kind = "RuleStmt" -> InLineRuleNoEffect
      [] s.kind = "EndStmt" -> EndStmtHasNoEffect

C7_OutOfStateFrame ==
    [][(StmtStep /\ OutOfState(stmt', is_matching)) =>
        /\ is_matching' = is_matching
        /\ history' = history
        /\ derivation_history' = derivation_history
        /\ rules' = rules
        /\ warnings' = Append(warnings, NoEffectWarning(stmt'))]_vars

\* An Expr statement met in a session that holds an anchor and one step.
C7_Witness ==
    /\ stmt.kind = "ExprStmt"
    /\ undos = 0
    /\ is_matching
    /\ Len(history) = 2
    /\ history = prev.history
    /\ warnings = <<ExprHasNoEffect>>

(***************************************************************************)
(* C8: Expr(e) in Global switches to Matching with history = [e] and an    *)
(* empty derivation, the rule table unchanged; the mode goes from Global   *)
(* to Matching only by an Expr statement and from Matching to Global only  *)
(* by an End statement.                                                    *)
(***************************************************************************)
C8_ModeTransitions ==
    [][/\ (StmtStep /\ ~is_matching /\ stmt'.kind = "ExprStmt") =>
              /\ is_matching'
              /\ history' = <<stmt'.expr>>
              /\ derivation_history' = << >>
              /\ rules' = rules
       /\ (~is_matching /\ is_matching') =>
              (StmtStep /\ stmt'.kind = "ExprStmt")
       /\ (is_matching /\ ~is_matching') =>
              (StmtStep /\ stmt'.kind = "EndStmt")]_vars

\* A session just started, with rules defined before it.
C8_Witness ==
    /\ stmt.kind = "ExprStmt"
    /\ undos = 0
    /\ prev.history = << >>
    /\ is_matching
    /\ history = <<stmt.expr>>
    /\ DOMAIN rules # {}

(***************************************************************************)
(* C9: Apply(n, d) in Matching with n not in the rule table appends the    *)
(* warning RuleDoesNotExist(n) and leaves mode, history, derivation and    *)
(* rule table unchanged.                                                   *)
(***************************************************************************)
C9_ApplyUndefined ==
    [][(StmtStep /\ is_matching /\ stmt'.kind = "ApplyStmt"
                 /\ stmt'.iden \notin DOMAIN rules) =>
        /\ warnings' = Append(warnings, RuleDoesNotExist(stmt'.iden))
        /\ is_matching' = is_matching
        /\ history' = history
        /\ derivation_history' = derivation_history
        /\ rules' = rules]_vars

\* An Apply of an undefined name met in a session with one step.
C9_Witness ==
    /\ stmt.kind = "ApplyStmt"
    /\ undos = 0
    /\ is_matching
    /\ stmt.iden \notin DOMAIN rules
    /\ Len(history) = 2
    /\ history = prev.history
    /\ warnings = <<RuleDoesNotExist(stmt.iden)>>

(***************************************************************************)
(* C10: Apply(n, d) in Matching, n having been defined, has the effect of  *)
(* Rule(L, R, d) for the pair (L, R) of the last Define(n, ...) executed:  *)
(* traverse(top, L, R, d) is pushed onto history and (L, R, d) onto        *)
(* derivation, and nothing else changes.                                   *)
(***************************************************************************)
C10_ApplyIsRule ==
    [][(StmtStep /\ is_matching /\ stmt'.kind = "ApplyStmt"
                 /\ defined[stmt'.iden] # NoRule) =>
        LET L == defined[stmt'.iden][1]
            R == defined[stmt'.iden][2]
            d == stmt'.depth
            r == rule_arm(history, derivation_history, L, R, d)
        IN  /\ history' = Append(history, ast_traverse_match(get_expr(history), L, R, d))
            /\ derivation_history' = Append(derivation_history, <<L, R, d>>)
            /\ history' = r.history
            /\ derivation_history' = r.derivation_history
            /\ is_matching' = is_matching
            /\ rules' = rules
            /\ warnings' = warnings]_vars

\* An Apply at depth 1 that changed the term.
C10_Witness ==
    /\ stmt.kind = "ApplyStmt"
    /\ stmt.depth = 1
    /\ undos = 0
    /\ defined[stmt.iden] # NoRule
    /\ Len(history) = Len(prev.history) + 1
    /\ Len(history) >= 2
    /\ history[Len(history)] # history[Len(history) - 1]

(***************************************************************************)
(* C11: only a Define statement changes the rule table (Expr, Apply, Rule, *)
(* End and undo leave it as it is, so it outlives a session), and          *)
(* Define(n, L, R) sets the entry of n to (L, R), leaves every other entry *)
(* alone and leaves mode, history and derivation unchanged.                *)
(***************************************************************************)
C11_RulesOnlyByDefine ==
    [][/\ rules' # rules => (StmtStep /\ stmt'.kind = "DefineStmt")
       /\ (StmtStep /\ stmt'.kind = "DefineStmt") =>
              /\ DOMAIN rules' = (DOMAIN rules) \cup {stmt'.iden}
              /\ rules'[stmt'.iden] = <<stmt'.left, stmt'.right>>
              /\ \A n \in (DOMAIN rules) \ {stmt'.iden} : rules'[n] = rules[n]
              /\ is_matching' = is_matching
              /\ history' = history
              /\ derivation_history' = derivation_history]_vars

\* A second name defined inside a session, the first still in the table;
\* and, as the table outlives sessions, the same once a session has ended.
C11_Witness ==
    /\ stmt.kind = "DefineStmt"
    /\ undos = 0
    /\ is_matching
    /\ Len(history) = 2
    /\ DOMAIN rules = RuleNames
    /\ \E n \in RuleNames : n # stmt.iden /\ rules[n] # rules[stmt.iden]

(***************************************************************************)
(* C12: End in Matching, without a path or with a path whose write         *)
(* succeeds, leaves history and derivation empty and the mode Global,      *)
(* whatever was applied and undone in the session; an Expr after it starts *)
(* a session whose history holds its own anchor only.                      *)
(***************************************************************************)
C12_EndResets ==
    [][/\ (StmtStep /\ is_matching /\ stmt'.kind = "EndStmt" /\ res' # "Err") =>
              /\ history' = << >>
              /\ derivation_history' = << >>
              /\ ~is_matching'
       /\ (StmtStep /\ ~is_matching /\ stmt.kind = "EndStmt"
                    /\ stmt'.kind = "ExprStmt") =>
              /\ history' = <<stmt'.expr>>
              /\ derivation_history' = << >>
              /\ is_matching']_vars

\* The End, with a path, of a session that held an anchor and two steps.
C12_Witness ==
    /\ stmt.kind = "EndStmt"
    /\ stmt.path # None
    /\ undos = 0
    /\ res # "Err"
    /\ Len(prev.history) = 3
    /\ Len(prev.derivation_history) = 2
    /\ history = << >>
    /\ derivation_history = << >>
    /\ ~is_matching

(***************************************************************************)
(* C13: when the write of End(path)'s transcript fails, interpret returns  *)
(* the I/O error and the session has been reset: the mode is Global and    *)
(* history and derivation are empty.                                       *)
(***************************************************************************)
C13_FailedWriteResets ==
    res = "Err" =>
        /\ stmt.kind = "EndStmt"
        /\ stmt.path # None
        /\ ~is_matching
        /\ history = << >>
        /\ derivation_history = << >>

(***************************************************************************)
(* C14: the transcript that End(path) writes is built from the session as  *)
(* it was before the clear: it starts with the anchor, holds exactly one   *)
(* step entry per element of derivation, numbered 1..n in order, entry i   *)
(* carrying the i-th rule (L, R, d) and the term it produced, and ends     *)
(* with the top of history.  It is written also for a session without any  *)
(* step (no entry, result = anchor); a step that was undone is in neither  *)
(* stack by then, so it is not in the transcript.                          *)
(***************************************************************************)
\* Entries i..n of the transcript of the session (h, d), h[1] the anchor
\* and h[i + 1] the term produced by d[i].
RECURSIVE TranscriptEntries(_, _, _)
TranscriptEntries(h, d, i) ==
    IF i > Len(d) THEN ""
    ELSE "\n" \o ToString(i) \o ". Applying rule: " \o to_string(d[i][1])
              \o " => " \o to_string(d[i][2]) \o " at depth "
              \o ToString(d[i][3]) \o ", results in:\n    "
              \o to_string(h[i + 1]) \o "\n"
              \o TranscriptEntries(h, d, i + 1)

C14_Transcript ==
    (stmt.kind = "EndStmt" /\ stmt.path # None /\ prev.history # << >>
                           /\ res # "Err" /\ ~is_matching) =>
        written = << "Start pattern matching on "
                        \o to_string(prev.history[1]) \o "\n"
                        \o TranscriptEntries(prev.history,
                                             prev.derivation_history, 1)
                        \o "\nResult: "
                        \o to_string(prev.history[Len(prev.history)]) >>

\* The transcript of the session f(A); f(x) => g(x, x) at 0;
\* g(a, b) => h(a) at 0 has been written.
C14_Witness ==
    /\ stmt.kind = "EndStmt"
    /\ stmt.path # None
    /\ ~is_matching
    /\ prev.history = <<fA, gAA, hA>>
    /\ written = << "Start pattern matching on f(A)\n"
                    \o "\n1. Applying rule: f(x) => g(x, x) at depth 0, results in:\n    g(A, A)\n"
                    \o "\n2. Applying rule: g(a, b) => h(a) at depth 0, results in:\n    h(A)\n"
                    \o "\nResult: h(A)" >>

RECURSIVE PositionsAt(_, _)
PositionsAt(t, d) ==
    IF d = 0 THEN {<< >>}
    ELSE IF t.kind = "Variable" THEN {}
    ELSE UNION {{<<i>> \o p : p \in PositionsAt(t.args[i], d - 1)} :
                   i \in 1..Len(t.args)}

\* The sub-term of t at position p.
RECURSIVE Subterm(_, _)
Subterm(t, p) ==
    IF p = << >> THEN t ELSE Subterm(t.args[Head(p)], Tail(p))

\* Two nodes of the same kind, name and number of arguments.
SameNode(a, b) ==
    /\ a.kind = b.kind
    /\ a.iden = b.iden
    /\ a.kind = "Functor" => Len(a.args) = Len(b.args)

\* The steps recorded in the session: step i made history[i + 1] out of
\* history[i] with the rule and depth of derivation_history[i].
Steps == 1..Len(derivation_history)

(***************************************************************************)
(* C16: traverse(C, L, R, d) is C with each sub-term that lies exactly d   *)
(* edges below the root replaced by matchOne of it, once (what matchOne    *)
(* returns is not matched again), every node above depth d being left as   *)
(* it is; so traverse(C, L, R, 0) = matchOne(C, L, R), and a Variable met  *)
(* with d > 0 is returned unchanged.                                       *)
(***************************************************************************)
C16_Traverse ==
    \A i \in Steps :
        LET C == history[i]
            L == derivation_history[i][1]
            R == derivation_history[i][2]
            d == derivation_history[i][3]
            T == history[i + 1]
        IN  /\ \A k \in 0..d : PositionsAt(T, k) = PositionsAt(C, k)
            /\ \A k \in 0..(d - 1) : \A q \in PositionsAt(C, k) :
                   SameNode(Subterm(T, q), Subterm(C, q))
            /\ \A p \in PositionsAt(C, d) :
                   Subterm(T, p) = match_patterns(Subterm(C, p), L, R)
            /\ d = 0 => T = match_patterns(C, L, R)
            /\ (d > 0 /\ C.kind = "Variable") => T = C

\* x => t(x) at depth 1 of h(x, f(x)): both arguments are matched, once
\* each, and what was put in their place is not matched again.
C16_Witness ==
    \E i \in Steps :
        /\ history[i] = hxfx
        /\ derivation_history[i] = <<varx, tx, 1>>
        /\ history[i + 1] = Functor("h", <<tx, Functor("f", <<tx>>)>>)

(***************************************************************************)
(* A pattern that matches a subject at its root, read off the matching     *)
(* rules: two Variables of the same name; or two Functors of the same head *)
(* and arity whose arguments bind pairwise, where a Variable of the        *)
(* pattern binds to any term and a Functor of the pattern binds to a       *)
(* Functor of the same head and arity whose arguments bind in turn.        *)
(***************************************************************************)
RECURSIVE BindsTo(_, _)
BindsTo(l, c) ==
    \/ l.kind = "Variable"
    \/ /\ c.kind = "Functor"
       /\ l.iden = c.iden
       /\ Len(l.args) = Len(c.args)
       /\ \A j \in 1..Len(l.args) : BindsTo(l.args[j], c.args[j])

MatchesAtRoot(C, L) ==
    IF C.kind = "Variable" /\ L.kind = "Variable" THEN C.iden = L.iden
    ELSE IF C.kind = "Functor" /\ L.kind = "Functor" THEN BindsTo(L, C)
    ELSE FALSE

\* The steps at depth 0: history[i + 1] is matchOne of history[i].
RootSteps == {i \in Steps : derivation_history[i][3] = 0}

\* An immediate argument of the Functor C is a Variable named like the
\* Variable L.
HasArgumentNamed(C, L) ==
    \E j \in 1..Len(C.args) :
        C.args[j].kind = "Variable" /\ C.args[j].iden = L.iden

(***************************************************************************)
(* C17: when L does not match C at its root, matchOne(C, L, R) = C.        *)
(* As stated, for all four combinations of shapes, a Functor C against a   *)
(* Variable L included:                                                    *)
(***************************************************************************)
C17_Original ==
    \A i \in RootSteps :
        ~MatchesAtRoot(history[i], derivation_history[i][1])
            => history[i + 1] = history[i]

(***************************************************************************)
(* C17, amended: when L does not match C at its root, matchOne(C, L, R)    *)
(* is C for a Variable against a Variable, a Variable against a Functor    *)
(* and a Functor against a Functor; for a Functor C against a Variable L   *)
(* it is C when no immediate argument of C is a Variable named like L.     *)
(***************************************************************************)
C17_Amended ==
    \A i \in RootSteps :
        LET C == history[i]
            L == derivation_history[i][1]
        IN  (/\ ~MatchesAtRoot(C, L)
             /\ ~(C.kind = "Functor" /\ L.kind = "Variable"
                                     /\ HasArgumentNamed(C, L)))
                => history[i + 1] = C

\* h(A, B) against h(a), a Functor of the same head and another arity, and
\* then against the Variable x, the name of none of its arguments: the
\* term stays as it is both times.
C17_Witness ==
    /\ history = <<hAB, hAB, hAB>>
    /\ derivation_history = << <<ha, gab, 0>>, <<varx, tx, 0>> >>

(***************************************************************************)
(* The binding of a pattern: the table is filled walking the arguments in  *)
(* order, sub-patterns included, so a Variable of L that occurs more than  *)
(* once is bound to the sub-term of C at its last position.                *)
(***************************************************************************)
RECURSIVE AllPositions(_)
AllPositions(t) ==
    {<< >>} \cup
        (IF t.kind = "Variable" THEN {}
         ELSE UNION {{<<j>> \o p : p \in AllPositions(t.args[j])} :
                        j \in 1..Len(t.args)})

\* The positions of L at which the Variable v stands.
VarPositions(L, v) == {p \in AllPositions(L) : Subterm(L, p) = v}

\* p comes before q in the walk (neither leads to the other).
Before(p, q) ==
    \E k \in 1..Min(Len(p), Len(q)) :
        /\ p[k] < q[k]
        /\ \A j \in 1..(k - 1) : p[j] = q[j]

\* The sub-term of C that the Variable v of L is bound to.
Bound(L, C, v) ==
    LET ps == VarPositions(L, v)
        last == CHOOSE p \in ps : \A q \in ps \ {p} : Before(q, p)
    IN  Subterm(C, last)

\* T is R with every Variable that L binds replaced by what it is bound to.
RECURSIVE IsInstance(_, _, _, _)
IsInstance(T, R, L, C) ==
    IF R.kind = "Variable"
    THEN IF VarPositions(L, R) # {} THEN T = Bound(L, C, R) ELSE T = R
    ELSE /\ T.kind = "Functor"
         /\ T.iden = R.iden
         /\ Len(T.args) = Len(R.args)
         /\ \A j \in 1..Len(R.args) : IsInstance(T.args[j], R.args[j], L, C)

(***************************************************************************)
(* C18: for a Functor C against a Functor L, when heads and arities are    *)
(* equal and the binding table can be built (a Variable of the pattern     *)
(* binds any sub-term, a Functor of the pattern fails against a Variable   *)
(* and needs a Functor of the same head and arity, into which the binding  *)
(* descends), matchOne returns R with every occurrence of each bound       *)
(* Variable replaced by the sub-term it is bound to; in every other case   *)
(* it returns C.                                                           *)
(***************************************************************************)
C18_FunctorAgainstFunctor ==
    \A i \in RootSteps :
        LET C == history[i]
            L == derivation_history[i][1]
            R == derivation_history[i][2]
            T == history[i + 1]
        IN  (C.kind = "Functor" /\ L.kind = "Functor") =>
                IF BindsTo(L, C) THEN IsInstance(T, R, L, C) ELSE T = C

\* g(f(A), B) against g(a, b) => g(b, a), and what it gives, g(B, f(A)),
\* against g(x, x) => f(x), where x is bound twice: f(f(A)).
C18_Witness ==
    /\ history = <<gfAB, Functor("g", <<Variable("B"), fA>>), ffA>>
    /\ derivation_history = << <<gab, gba, 0>>, <<gxx, fx, 0>> >>

(***************************************************************************)
(* C19: for a Functor C against a Variable L, matchOne returns a Functor   *)
(* of the head and arity of C in which each immediate argument that is a   *)
(* Variable named exactly like L is replaced by R, and every other         *)
(* argument (a Variable of another name, or a Functor, whatever is inside  *)
(* it) is kept.                                                            *)
(***************************************************************************)
C19_FunctorAgainstVariable ==
    \A i \in RootSteps :
        LET C == history[i]
            L == derivation_history[i][1]
            R == derivation_history[i][2]
            T == history[i + 1]
        IN  (C.kind = "Functor" /\ L.kind = "Variable") =>
                /\ T.kind = "Functor"
                /\ T.iden = C.iden
                /\ Len(T.args) = Len(C.args)
                /\ \A j \in 1..Len(C.args) :
                       T.args[j] =
                           IF C.args[j].kind = "Variable"
                              /\ C.args[j].iden = L.iden
                           THEN R
                           ELSE C.args[j]

\* h(A, B) against A => c(), and what it gives, h(c(), B), against
\* x => t(x): the argument A is replaced, B and c() are kept.
C19_Witness ==
    /\ history = <<hAB, Functor("h", <<c0, Variable("B")>>),
                   Functor("h", <<c0, Variable("B")>>)>>
    /\ derivation_history = << <<varA, c0, 0>>, <<varx, tx, 0>> >>

(***************************************************************************)
(* C20: scenario S3.  After def tag as x => t(x), the expression h(A, B)   *)
(* and tag at 0, as stated, the current term is h(t(A), t(B)): the rule    *)
(* wraps every Variable argument of the subject.                           *)
(***************************************************************************)
S3Ran ==
    /\ stmt = ApplyStmt("tag", 0)
    /\ prev.history = <<hAB>>
    /\ defined["tag"] = <<varx, tx>>
    /\ Len(history) = 2

C20_Original ==
    S3Ran => get_expr(history) =
                 Functor("h", <<Functor("t", <<Variable("A")>>),
                                Functor("t", <<Variable("B")>>)>>)

(***************************************************************************)
(* C20, amended: after the statements of S3 the current term is h(A, B):   *)
(* the rule replaces the immediate arguments that are Variables named x,   *)
(* and h(A, B) has none.                                                   *)
(***************************************************************************)
C20_Amended ==
    S3Ran => get_expr(history) = hAB

\* The three statements of S3 have run and the rule was applied at the
\* root of h(A, B).
C20_Witness ==
    /\ S3Ran
    /\ rules["tag"] = <<varx, tx>>
    /\ history = <<hAB, hAB>>
    /\ derivation_history = << <<varx, tx, 0>> >>

(***************************************************************************)
(* C23: traverse(C, L, R, d) keeps the shape above the frontier: every     *)
(* node of C less than d edges below the root is found at the same         *)
(* position of the result with the same head and arity; and when C has no  *)
(* node at depth d (every branch ends earlier, in a Variable or a Functor  *)
(* without arguments) the result is C.                                     *)
(***************************************************************************)
C23_ShapeAboveFrontier ==
    \A i \in Steps :
        LET C == history[i]
            d == derivation_history[i][3]
            T == history[i + 1]
        IN  /\ \A k \in 0..(d - 1) :
                   /\ PositionsAt(C, k) \subseteq PositionsAt(T, k)
                   /\ \A q \in PositionsAt(C, k) :
                          SameNode(Subterm(T, q), Subterm(C, q))
            /\ PositionsAt(C, d) = {} => T = C

\* A => c() at depth 2 of h(A, B), which has no node there, and then at
\* depth 1, where the root is kept and the argument A is rewritten.
C23_Witness ==
    /\ history = <<hAB, hAB, Functor("h", <<c0, Variable("B")>>)>>
    /\ derivation_history = << <<varA, c0, 2>>, <<varA, c0, 1>> >>

(***************************************************************************)
(* C24: when a Variable occurs more than once in a Functor pattern L and   *)
(* the sub-terms of the subject at its occurrences differ, the match       *)
(* succeeds all the same, and the Variable's image is the sub-term at its  *)
(* last occurrence in the left-to-right, depth-first walk of L's           *)
(* arguments.                                                              *)
(***************************************************************************)
\* The Variable v stands at two positions of L where C differs.
BoundTwice(L, C, v) ==
    \E p, q \in VarPositions(L, v) : Subterm(C, p) # Subterm(C, q)

C24_LastBindingWins ==
    \A i \in RootSteps :
        LET C == history[i]
            L == derivation_history[i][1]
            R == derivation_history[i][2]
            filled == fill_pattern_mapping(C.args, L.args, EmptyTable)
        IN  (/\ C.kind = "Functor" /\ L.kind = "Functor"
             /\ BindsTo(L, C)
             /\ \E v \in {Subterm(L, p) : p \in AllPositions(L)} :
                    v.kind = "Variable" /\ BoundTwice(L, C, v)) =>
                /\ filled.ok
                /\ \A v \in DOMAIN filled.table :
                       filled.table[v] = Bound(L, C, v)
                /\ history[i + 1] = construct_rhs(R, filled.table)
                /\ R.kind = "Variable" /\ R \in DOMAIN filled.table
                       => history[i + 1] = Bound(L, C, R)

\* g(f(A), B) against g(x, x) => f(x): x stands for f(A) and then for B,
\* and the result is f(B).
C24_Witness ==
    /\ Len(history) >= 2
    /\ history[1] = gfAB
    /\ derivation_history[1] = <<gxx, fx, 0>>
    /\ history[2] = Functor("f", <<Variable("B")>>)

(***************************************************************************)
(* C25: substitute maps R simultaneously and keeps its structure:          *)
(* substitute(R, empty) = R; a Functor of R keeps its head and arity; a    *)
(* Variable of R that the table binds is replaced by its image, another    *)
(* one is kept; an image is not substituted again, so that f(a, b) =>      *)
(* f(b, a) applied twice at depth 0 to f(s, t) gives f(s, t) back (here    *)
(* with the head g).                                                       *)
(***************************************************************************)
\* T is R with each Variable in the domain of B replaced by its image.
RECURSIVE IsSubstitution(_, _, _)
IsSubstitution(T, R, B) ==
    IF R.kind = "Variable"
    THEN IF R \in DOMAIN B THEN T = B[R] ELSE T = R
    ELSE /\ T.kind = "Functor"
         /\ T.iden = R.iden
         /\ Len(T.args) = Len(R.args)
         /\ \A j \in 1..Len(R.args) : IsSubstitution(T.args[j], R.args[j], B)

C25_Substitute ==
    \A i \in RootSteps :
        LET C == history[i]
            L == derivation_history[i][1]
            R == derivation_history[i][2]
            T == history[i + 1]
        IN  /\ construct_rhs(R, EmptyTable) = R
            /\ (C.kind = "Functor" /\ L.kind = "Functor" /\ BindsTo(L, C)) =>
                   IsSubstitution(T, R,
                       fill_pattern_mapping(C.args, L.args, EmptyTable).table)
            /\ (/\ i + 1 \in RootSteps
                /\ derivation_history[i] = <<gab, gba, 0>>
                /\ derivation_history[i + 1] = <<gab, gba, 0>>
                /\ C.kind = "Functor" /\ C.iden = "g" /\ Len(C.args) = 2) =>
                   history[i + 2] = C

\* g(b, a), whose arguments carry the names of the pattern's Variables,
\* against g(a, b) => g(b, a): g(a, b), and g(b, a) again the second time.
C25_Witness ==
    /\ history = <<gba, gab, gba>>
    /\ derivation_history = << <<gab, gba, 0>>, <<gab, gba, 0>> >>

(***************************************************************************)
(* C26: a term in history is never changed.  A Rule, Apply, Define or      *)
(* out-of-state statement leaves every entry of history (the anchor and    *)
(* the previous top included) and every entry of derivation as it is and   *)
(* at most appends one at the top; an undo at most removes the top.        *)
(***************************************************************************)
IsPrefix(s, t) == Len(s) <= Len(t) /\ SubSeq(t, 1, Len(s)) = s

C26_HistoryImmutable ==
    [][/\ (StmtStep /\ (\/ stmt'.kind \in {"RuleStmt", "ApplyStmt", "DefineStmt"}
                        \/ OutOfState(stmt', is_matching))) =>
              /\ IsPrefix(history, history')
              /\ IsPrefix(derivation_history, derivation_history')
              /\ Len(history') <= Len(history) + 1
              /\ Len(derivation_history') <= Len(derivation_history) + 1
       /\ UndoStep =>
              /\ IsPrefix(history', history)
              /\ IsPrefix(derivation_history', derivation_history)
              /\ Len(history') >= Len(history) - 1
              /\ Len(derivation_history') >= Len(derivation_history) - 1]_vars

\* A second rule has rewritten the term the first one produced: the anchor
\* and the first result are still in history, below the new top.
C26_Witness ==
    /\ stmt.kind = "RuleStmt"
    /\ undos = 0
    /\ Len(history) = 3
    /\ SubSeq(history, 1, 2) = prev.history
    /\ history[3] # history[2]
    /\ history[2] # history[1]

(***************************************************************************)
(* C21: an input (a line of the REPL or a script file) whose lexing or     *)
(* parsing reports an error is aborted: none of its statements is          *)
(* interpreted, so that mode, history, derivation and rule table stay as   *)
(* they were before it; in the REPL the loop goes on with the next line.   *)
(***************************************************************************)
C21_ErrorAborts ==
    [][/\ StmtStep => ~Failed(input)
       /\ (pc = "prompt" /\ ~UndoStep /\ Failed(input')) =>
              /\ pc' = "prompt"
              /\ history' = history
              /\ derivation_history' = derivation_history
              /\ is_matching' = is_matching
              /\ rules' = rules]_vars

\* The same for the lines of the REPL alone.
C21_LineErrorAborts ==
    [][/\ (StmtStep /\ input.source = "line") => ~Failed(input)
       /\ (pc = "prompt" /\ ~UndoStep /\ Failed(input')) =>
              /\ pc' = "prompt"
              /\ history' = history
              /\ derivation_history' = derivation_history
              /\ is_matching' = is_matching
              /\ rules' = rules]_vars

(***************************************************************************)
(* The tokens that the words of an input stand for.  A word is a longest   *)
(* run of identifier characters; it is a keyword's token when it is one of *)
(* def, as, at, end and whitespace or the end of the input follows it, and *)
(* one Identifier carrying the whole word otherwise.                       *)
(***************************************************************************)
Keywords ==
    [w \in {"def", "as", "at", "end"} |->
        CASE w = "def" -> "Define"
          [] w = "as" -> "As"
          [] w = "at" -> "At"
          [] w = "end" -> "End"]

\* The input is made of letters, '_', whitespace and '(' only.
WordsOnly(input_string) ==
    \A k \in 1..Len(input_string) :
        input_string[k] \in (LowerCase \cup UpperCase \cup {"_", "("}
                                       \cup Whitespace)

\* The indices (from 0) at which a word starts.
WordStarts(input_string) ==
    {k \in 0..(Len(input_string) - 1) :
        /\ input_string[k + 1] \in IdentifierChars
        /\ k > 0 => input_string[k] \notin IdentifierChars}

WordAt(input_string, k) ==
    Lexeme(input_string, k, RunLength(input_string, k, IdentifierChars))

RECURSIVE WordTokens(_, _)
WordTokens(input_string, k) ==
    IF k >= Len(input_string) THEN << >>
    ELSE IF input_string[k + 1] \in Whitespace
    THEN WordTokens(input_string, k + 1)
    ELSE IF input_string[k + 1] = "("
    THEN <<Token("OpenParen")>> \o WordTokens(input_string, k + 1)
    ELSE LET n == RunLength(input_string, k, IdentifierChars)
             word == Lexeme(input_string, k, n)
             follows == CharAt(input_string, k + n)
         IN  << IF word \in DOMAIN Keywords
                   /\ follows \in Whitespace \cup {None}
                THEN Token(Keywords[word])
                ELSE Identifier(word) >>
             \o WordTokens(input_string, k + n)

\* Lexer::lex has returned.
LexDone == pc = "lex" /\ lexer.input_bytes = Len(lexer.input_string)

\* The word starts with the letters of a keyword.
StartsWithKeyword(word) ==
    \E w \in DOMAIN Keywords :
        Len(word) >= Len(w) /\ SubSeq(word, 1, Len(w)) = w

(***************************************************************************)
(* C22: each of the words def, as, at and end is lexed as its keyword      *)
(* token only when whitespace or the end of the input follows it at once;  *)
(* in every other case the whole run of identifier characters that it      *)
(* starts is lexed as one Identifier ("defas enddef as" gives              *)
(* Identifier(defas), Identifier(enddef), As).  Stated for the inputs      *)
(* whose words all start with the letters of a keyword.                    *)
(***************************************************************************)
C22_KeywordsNeedWhitespace ==
    (/\ LexDone
     /\ WordsOnly(lexer.input_string)
     /\ \A k \in WordStarts(lexer.input_string) :
            StartsWithKeyword(WordAt(lexer.input_string, k))) =>
        lexer.tokens = WordTokens(lexer.input_string, 0)

\* The same for the words that start with def or end.
C22_DefEndNeedWhitespace ==
    (/\ LexDone
     /\ WordsOnly(lexer.input_string)
     /\ \A k \in WordStarts(lexer.input_string) :
            \E w \in {"def", "end"} :
                /\ Len(WordAt(lexer.input_string, k)) >= Len(w)
                /\ SubSeq(WordAt(lexer.input_string, k), 1, Len(w)) = w) =>
        lexer.tokens = WordTokens(lexer.input_string, 0)

(***************************************************************************)
(* C27: every longest run of characters of the form                        *)
(* [A-Za-z_][A-Za-z0-9_]* that is not one of def, as, at, end is lexed to  *)
(* exactly one Identifier carrying the whole run, whatever its first       *)
(* letter and wherever it stands in the input, its last character          *)
(* included.  Stated for the inputs none of whose words is a keyword.      *)
(***************************************************************************)
C27_WholeRunIsIdentifier ==
    (/\ LexDone
     /\ WordsOnly(lexer.input_string)
     /\ \A k \in WordStarts(lexer.input_string) :
            WordAt(lexer.input_string, k) \notin DOMAIN Keywords) =>
        lexer.tokens = WordTokens(lexer.input_string, 0)

\* The same for the words that do not start with the letter a.
C27_NotStartingWithA ==
    (/\ LexDone
     /\ WordsOnly(lexer.input_string)
     /\ \A k \in WordStarts(lexer.input_string) :
            /\ WordAt(lexer.input_string, k) \notin DOMAIN Keywords
            /\ lexer.input_string[k + 1] # "a") =>
        lexer.tokens = WordTokens(lexer.input_string, 0)

====
